---- MODULE Spec2Model ----
(***************************************************************************)
(* AXIS (src/index.tsx): the App component's translation session.          *)
(*                                                                         *)
(* State is the React state of App (inputLanguage, outputLanguage,         *)
(* inputCode, outputCode, loading, toast), the live invocations of the     *)
(* async handler handleTranslate (each with its captured closure values,   *)
(* its request to the generation service and its local accumulator         *)
(* fullText) and the clipboard reads handleInsert is still awaiting.       *)
(* Text is a sequence of one-character strings, so that trim() and the two *)
(* fence regular expressions are computed character by character.          *)
(***************************************************************************)
EXTENDS Naturals, Sequences, FiniteSets

VARIABLES
    inputLanguage,   \* useState('JavaScript')
    outputLanguage,  \* useState('Python')
    inputCode,       \* useState('')
    outputCode,      \* useState('')
    loading,         \* useState(false)
    toast,           \* useState('')
    calls,           \* live invocations of handleTranslate, oldest first
    clipboardReads,  \* navigator.clipboard.readText() promises not yet settled
    received,        \* history: the chunks the stream loop has processed since the last accepted submission
    lastSubmit,      \* history: what the last click on Apply led to
    outcome          \* history: how the last stream ended

vars == <<inputLanguage, outputLanguage, inputCode, outputCode, loading, toast,
          calls, clipboardReads, received, lastSubmit, outcome>>

----------------------------------------------------------------------------
(* Bounds of the exploration *)

\* chunks one stream delivers
MaxChunks == 2
\* characters one stream delivers in total
MaxAccLen == 5
\* clipboard reads awaited at once
MaxPendingReads == 1

----------------------------------------------------------------------------
(* Data *)

NaturalLanguage == "Natural Language"

\* three of the nineteen entries: the sentinel and the two initial selections
LANGUAGES == {NaturalLanguage, "JavaScript", "Python"}

\* the character U+0060; the name stands for it in every text of the model
Backtick == "BACKTICK"
Newline == "\n"
\* "a" stands for the characters \w matches, "+" for the printable ones it does not
WordChars == {"a"}
Chars == {Backtick, "a", "+", Newline}

\* the characters String.prototype.trim removes; "x" stands for the others
WhiteSpace == {" "}

TextsOver(alphabet, n) == UNION {[1..k -> alphabet] : k \in 0..n}

\* source texts: empty, white space only, and code with white space around it
InputTexts == {<<>>, <<" ", " ">>, <<" ", "x", " ">>}

\* the source text of the stream-only specification
SampleSource == <<"x">>

\* a chunk of the response stream: chunk.text is a string or undefined
NoTextChunk == [kind |-> "undefined"]
TextChunk(t) == [kind |-> "string", text |-> t]

\* the chunks whose text, if any, has at most n characters of the alphabet
ChunksOver(alphabet, n) ==
    {NoTextChunk} \cup {TextChunk(t) : t \in TextsOver(alphabet, n) \ {<<>>}}

\* the toasts
ToastEnterCode == "Please enter code to translate."
ToastSameLanguage == "Input and output languages must be different."
ToastFailed == "Translation failed. Check API key or network."
ToastInserted == "Clipboard content inserted."
ToastClipboardFailed == "Failed to read clipboard."
ToastNothingToExport == "Nothing to export."
ToastDispatched == "File dispatched successfully."

\* the two system instructions
ExplainInstruction ==
    "You are a helpful coding assistant. Explain code clearly and concisely."
RawCodeInstruction ==
    "You are a coding expert. Output ONLY the raw code. Do not use markdown code blocks (BACKTICK BACKTICK BACKTICK). Do not add explanations or conversational text."

----------------------------------------------------------------------------
(* Pure functions *)

RECURSIVE TrimStart(_)
TrimStart(s) ==
    IF s # <<>> /\ Head(s) \in WhiteSpace THEN TrimStart(Tail(s)) ELSE s

RECURSIVE TrimEnd(_)
TrimEnd(s) ==
    IF s # <<>> /\ s[Len(s)] \in WhiteSpace
    THEN TrimEnd(SubSeq(s, 1, Len(s) - 1))
    ELSE s

\* a test of !inputCode in place of !inputCode.trim()
TrimIdentity(s) == s

\* String.prototype.trim
Trim(s) == TrimEnd(TrimStart(s))

\* the three prompt templates, as the pieces the template literal joins
GeneratePrompt(out, code) ==
    <<"Generate ", out, " code that performs the following task:\n\n", code>>

ExplainPrompt(in, code) ==
    <<"Explain the following ", in,
      " code in clear, concise natural language:\n\n", code>>

TranslatePrompt(in, out, code) ==
    <<"Translate the following ", in, " code to ", out, ".\n\n", code>>

BuildPrompt(in, out, code) ==
    IF in = NaturalLanguage THEN GeneratePrompt(out, code)
    ELSE IF out = NaturalLanguage THEN ExplainPrompt(in, code)
    ELSE TranslatePrompt(in, out, code)

\* the instruction chosen by the branch the prompt took
SystemInstructionByInput(in, out) ==
    IF in = NaturalLanguage THEN RawCodeInstruction
    ELSE IF out = NaturalLanguage THEN ExplainInstruction
    ELSE RawCodeInstruction

\* const systemInstruction = outputLanguage === 'Natural Language' ? ... : ...
SystemInstruction(in, out) ==
    IF out = NaturalLanguage THEN ExplainInstruction ELSE RawCodeInstruction

\* chunk.text || ''
ChunkText(chunk) == IF chunk.kind = "string" THEN chunk.text ELSE <<>>

\* String.prototype.startsWith('```')
StartsWithFence(s) ==
    Len(s) >= 3 /\ s[1] = Backtick /\ s[2] = Backtick /\ s[3] = Backtick

\* the number of characters \w* takes from position i on (greedy)
RECURSIVE WordRun(_, _)
WordRun(s, i) ==
    IF i <= Len(s) /\ s[i] \in WordChars THEN 1 + WordRun(s, i + 1) ELSE 0

\* the length of the match of /^```\w*\n?/ on a text that starts with ```
OpeningFenceMatch(s) ==
    LET w == WordRun(s, 4)
    IN  3 + w + (IF 3 + w < Len(s) /\ s[4 + w] = Newline THEN 1 ELSE 0)

\* if (displayCode.startsWith('```')) displayCode = displayCode.replace(/^```\w*\n?/, '')
StripOpeningFence(s) ==
    IF StartsWithFence(s) THEN SubSeq(s, OpeningFenceMatch(s) + 1, Len(s)) ELSE s

EndsWithFence(s) ==
    /\ Len(s) >= 3
    /\ s[Len(s) - 2] = Backtick
    /\ s[Len(s) - 1] = Backtick
    /\ s[Len(s)] = Backtick

\* a replace(/```/g, '') in place of replace(/```$/g, ''): every fence goes
RECURSIVE StripEveryFence(_)
StripEveryFence(s) ==
    IF s = <<>> THEN <<>>
    ELSE IF StartsWithFence(s) THEN StripEveryFence(SubSeq(s, 4, Len(s)))
    ELSE <<Head(s)>> \o StripEveryFence(Tail(s))

\* displayCode.replace(/```$/g, ''): $ is the end of the text (no m flag)
StripClosingFence(s) ==
    IF EndsWithFence(s) THEN SubSeq(s, 1, Len(s) - 3) ELSE s

\* the value the stream loop publishes for an accumulator
DisplayCode(fullText) == StripClosingFence(StripOpeningFence(fullText))

RemoveAt(seq, i) == SubSeq(seq, 1, i - 1) \o SubSeq(seq, i + 1, Len(seq))

----------------------------------------------------------------------------
(* The controls' disabled and readOnly attributes *)

\* an Apply button without its disabled attribute
NeverDisabled == FALSE

\* <button ... onClick={handleTranslate} disabled={loading}>
ApplyDisabled == loading

\* <button ... onClick={handleInsert} disabled={loading}>
InsertDisabled == loading

\* <button ... onClick={handleDispatch} disabled={!outputCode || loading}>
DispatchDisabled == outputCode = <<>> \/ loading

\* <CodeEditor code={inputCode} onChange={setInputCode} readOnly={loading} />
EditorReadOnly == loading

----------------------------------------------------------------------------
(* Initial state: the first render of App *)

Init ==
    /\ inputLanguage = "JavaScript"
    /\ outputLanguage = "Python"
    /\ inputCode = <<>>
    /\ outputCode = <<>>
    /\ loading = FALSE
    /\ toast = ""
    /\ calls = <<>>
    /\ clipboardReads = 0
    /\ received = <<>>
    /\ lastSubmit = "none"
    /\ outcome = "none"

----------------------------------------------------------------------------
(* Actions *)

\* LanguageSelect onChange={setInputLanguage}: never disabled
SelectInputLanguage ==
    /\ \E lang \in LANGUAGES : inputLanguage' = lang
    /\ UNCHANGED <<outputLanguage, inputCode, outputCode, loading, toast, calls,
                   clipboardReads, received, lastSubmit, outcome>>

\* a selector that also clears the output pane
SelectOutputLanguageClearing ==
    /\ \E lang \in LANGUAGES : outputLanguage' = lang
    /\ outputCode' = <<>>
    /\ UNCHANGED <<inputLanguage, inputCode, loading, toast, calls,
                   clipboardReads, received, lastSubmit, outcome>>

\* LanguageSelect onChange={setOutputLanguage}: never disabled
SelectOutputLanguage ==
    /\ \E lang \in LANGUAGES : outputLanguage' = lang
    /\ UNCHANGED <<inputLanguage, inputCode, outputCode, loading, toast, calls,
                   clipboardReads, received, lastSubmit, outcome>>

\* CodeEditor onChange={setInputCode}: the user edits the source text
EditInput(texts) ==
    /\ ~EditorReadOnly
    /\ \E text \in texts : inputCode' = text
    /\ UNCHANGED <<inputLanguage, outputLanguage, outputCode, loading, toast, calls,
                   clipboardReads, received, lastSubmit, outcome>>

\* setLoading(true), setOutputCode(''), the prompt, the system instruction and
\* the request to generateContentStream, up to the await
OpenStream(resetOutput) ==
    /\ loading' = TRUE
    /\ outputCode' = (IF resetOutput THEN <<>> ELSE outputCode)
    /\ calls' = Append(calls,
           [pc |-> "opening",
            inputLanguage |-> inputLanguage,
            outputLanguage |-> outputLanguage,
            inputCode |-> inputCode,
            prompt |-> BuildPrompt(inputLanguage, outputLanguage, inputCode),
            systemInstruction |-> SystemInstruction(inputLanguage, outputLanguage),
            fullText |-> <<>>])
    /\ received' = <<>>
    /\ lastSubmit' = "accepted"
    /\ outcome' = "pending"
    /\ UNCHANGED toast

\* a submission that leaves the output of the session before in place
StartTranslationKeepingOutput == OpenStream(FALSE)

\* the part of handleTranslate after its validation
StartTranslation == OpenStream(TRUE)

\* handleTranslate up to its first await
handleTranslate ==
    IF Trim(inputCode) = <<>>
    THEN /\ toast' = ToastEnterCode
         /\ lastSubmit' = "rejected"
         /\ UNCHANGED <<outputCode, loading, calls, received, outcome>>
    ELSE IF inputLanguage = outputLanguage /\ inputLanguage # NaturalLanguage
    THEN /\ toast' = ToastSameLanguage
         /\ lastSubmit' = "rejected"
         /\ UNCHANGED <<outputCode, loading, calls, received, outcome>>
    ELSE StartTranslation

\* a click on Apply: a disabled button dispatches no click event
ClickApply ==
    /\ IF ApplyDisabled
       THEN /\ lastSubmit' = "disabled"
            /\ UNCHANGED <<outputCode, loading, toast, calls, received, outcome>>
       ELSE handleTranslate
    /\ UNCHANGED <<inputLanguage, outputLanguage, inputCode, clipboardReads>>

\* await ai.models.generateContentStream(...) resolves: let fullText = ''
StreamOpened ==
    \E i \in DOMAIN calls :
        /\ calls[i].pc = "opening"
        /\ calls' = [calls EXCEPT ![i].pc = "streaming", ![i].fullText = <<>>]
        /\ UNCHANGED <<inputLanguage, outputLanguage, inputCode, outputCode, loading,
                       toast, clipboardReads, received, lastSubmit, outcome>>

\* a catch with setLoading(false) left at the end of the try block
CatchNoFinally(i, how) ==
    /\ toast' = ToastFailed
    /\ calls' = RemoveAt(calls, i)
    /\ outcome' = how
    /\ UNCHANGED <<inputLanguage, outputLanguage, inputCode, outputCode, loading,
                   clipboardReads, received, lastSubmit>>

\* what catch and finally do: the failure toast, then setLoading(false)
CatchFinally(i, how) ==
    /\ toast' = ToastFailed
    /\ loading' = FALSE
    /\ calls' = RemoveAt(calls, i)
    /\ outcome' = how
    /\ UNCHANGED <<inputLanguage, outputLanguage, inputCode, outputCode,
                   clipboardReads, received, lastSubmit>>

\* await ai.models.generateContentStream(...) rejects
StreamOpenFailed ==
    \E i \in DOMAIN calls :
        /\ calls[i].pc = "opening"
        /\ CatchFinally(i, "openFailed")

\* an iteration with fullText = text in place of fullText += text
ProcessChunkReplacing(i, chunk) ==
    LET fullText == ChunkText(chunk)
    IN  /\ calls' = [calls EXCEPT ![i].fullText = fullText]
        /\ outputCode' = DisplayCode(fullText)
        /\ received' = Append(received, chunk)
        /\ UNCHANGED <<inputLanguage, outputLanguage, inputCode, loading, toast,
                       clipboardReads, lastSubmit, outcome>>

\* one iteration of for await (const chunk of responseStream)
ProcessChunk(i, chunk) ==
    LET fullText == calls[i].fullText \o ChunkText(chunk)
    IN  /\ calls' = [calls EXCEPT ![i].fullText = fullText]
        /\ outputCode' = DisplayCode(fullText)
        /\ received' = Append(received, chunk)
        /\ UNCHANGED <<inputLanguage, outputLanguage, inputCode, loading, toast,
                       clipboardReads, lastSubmit, outcome>>

\* the stream delivers its next chunk, of at most n characters of the alphabet
StreamChunk(alphabet, n) ==
    \E i \in DOMAIN calls :
        /\ calls[i].pc = "streaming"
        /\ Len(received) < MaxChunks
        /\ LET room == MaxAccLen - Len(calls[i].fullText)
           IN  \E chunk \in ChunksOver(alphabet, IF n < room THEN n ELSE room) :
                   ProcessChunk(i, chunk)

\* the stream ends: triggerConfetti(), then finally setLoading(false)
StreamDone ==
    \E i \in DOMAIN calls :
        /\ calls[i].pc = "streaming"
        /\ loading' = FALSE
        /\ calls' = RemoveAt(calls, i)
        /\ outcome' = "completed"
        /\ UNCHANGED <<inputLanguage, outputLanguage, inputCode, outputCode, toast,
                       clipboardReads, received, lastSubmit>>

\* the stream throws between two chunks
StreamFailed ==
    \E i \in DOMAIN calls :
        /\ calls[i].pc = "streaming"
        /\ CatchFinally(i, "streamFailed")

\* handleInsert up to its await: a disabled button dispatches no click event
ClickInsert ==
    /\ ~InsertDisabled
    /\ clipboardReads < MaxPendingReads
    /\ clipboardReads' = clipboardReads + 1
    /\ UNCHANGED <<inputLanguage, outputLanguage, inputCode, outputCode, loading,
                   toast, calls, received, lastSubmit, outcome>>

\* navigator.clipboard.readText() resolves
ClipboardResolved ==
    /\ clipboardReads > 0
    /\ clipboardReads' = clipboardReads - 1
    /\ \E text \in InputTexts : inputCode' = text
    /\ toast' = ToastInserted
    /\ UNCHANGED <<inputLanguage, outputLanguage, outputCode, loading, calls,
                   received, lastSubmit, outcome>>

\* navigator.clipboard.readText() rejects
ClipboardRejected ==
    /\ clipboardReads > 0
    /\ clipboardReads' = clipboardReads - 1
    /\ toast' = ToastClipboardFailed
    /\ UNCHANGED <<inputLanguage, outputLanguage, inputCode, outputCode, loading,
                   calls, received, lastSubmit, outcome>>

\* handleDispatch: the download itself leaves the session state alone
ClickDispatch ==
    /\ ~DispatchDisabled
    /\ toast' = IF outputCode = <<>> THEN ToastNothingToExport ELSE ToastDispatched
    /\ UNCHANGED <<inputLanguage, outputLanguage, inputCode, outputCode, loading,
                   calls, clipboardReads, received, lastSubmit, outcome>>

\* Toast's timer: onClose={() => setToast('')}
ToastClose ==
    /\ toast # ""
    /\ toast' = ""
    /\ UNCHANGED <<inputLanguage, outputLanguage, inputCode, outputCode, loading,
                   calls, clipboardReads, received, lastSubmit, outcome>>

----------------------------------------------------------------------------
(* Specifications *)

\* the user's edits of the source text
TypeInput == EditInput(InputTexts)

\* a chunk of the brief streams
BriefChunk == StreamChunk(WordChars, 1)

\* the whole page, with brief streams
Next ==
    \/ SelectInputLanguage
    \/ SelectOutputLanguage
    \/ TypeInput
    \/ ClickApply
    \/ StreamOpened
    \/ StreamOpenFailed
    \/ BriefChunk
    \/ StreamDone
    \/ StreamFailed
    \/ ClickInsert
    \/ ClipboardResolved
    \/ ClipboardRejected
    \/ ClickDispatch
    \/ ToastClose

Spec == Init /\ [][Next]_vars

\* the user types the sample source text
TypeSample == EditInput({SampleSource})

\* the user clicks Apply once the sample is typed and the button is enabled
SubmitSample == inputCode = SampleSource /\ ~ApplyDisabled /\ ClickApply

\* a chunk of any text
AnyChunk == StreamChunk(Chars, MaxAccLen)

\* one source text and one pair of languages, with streams of any text
NextStream ==
    \/ TypeSample
    \/ SubmitSample
    \/ StreamOpened
    \/ StreamOpenFailed
    \/ AnyChunk
    \/ StreamDone
    \/ StreamFailed

SpecStream == Init /\ [][NextStream]_vars

\* the request to open the stream settles
OpenSettles == StreamOpened \/ StreamOpenFailed

\* the opened stream ends
StreamEnds == StreamDone \/ StreamFailed

\* the whole page, when every stream ends: the service answers the request to
\* open it and the opened stream completes or throws
LiveSpec == Spec /\ WF_vars(OpenSettles) /\ WF_vars(StreamEnds)

----------------------------------------------------------------------------
(* Helpers of the properties *)

IsPrefix(s, t) == Len(s) <= Len(t) /\ SubSeq(t, 1, Len(s)) = s

\* s occurs in t as a run of consecutive characters
IsInfix(s, t) ==
    \E k \in 0..(Len(t) - Len(s)) : SubSeq(t, k + 1, k + Len(s)) = s

Fence == <<Backtick, Backtick, Backtick>>

\* the texts trim() empties
IsBlank(s) == \A k \in DOMAIN s : s[k] \in WhiteSpace

SameProgrammingLanguage ==
    inputLanguage = outputLanguage /\ inputLanguage # NaturalLanguage

RECURSIVE Concat(_)
Concat(chunks) ==
    IF chunks = <<>> THEN <<>> ELSE ChunkText(Head(chunks)) \o Concat(Tail(chunks))

\* the call record a submission made now starts with
FreshCall ==
    [pc |-> "opening",
     inputLanguage |-> inputLanguage,
     outputLanguage |-> outputLanguage,
     inputCode |-> inputCode,
     prompt |-> BuildPrompt(inputLanguage, outputLanguage, inputCode),
     systemInstruction |-> SystemInstruction(inputLanguage, outputLanguage),
     fullText |-> <<>>]

----------------------------------------------------------------------------
(* Properties of the whole page (Spec) *)

\* C1: at most one translation stream is in flight at any time, and a click on
\* Apply while the session is busy is rejected: it opens no second stream and
\* leaves the busy flag, the accumulator and the published output as they were.
C1_BusySubmitRejected ==
    /\ [](Len(calls) <= 1 /\ (loading <=> Len(calls) = 1))
    /\ [][(loading /\ ClickApply) =>
            /\ lastSubmit' = "disabled"
            /\ UNCHANGED <<loading, calls, outputCode, received, toast>>]_vars

\* a click on Apply was dropped while a stream had already delivered text
C1_Witness ==
    /\ loading
    /\ lastSubmit = "disabled"
    /\ Len(calls) = 1
    /\ calls[1].pc = "streaming"
    /\ calls[1].fullText # <<>>

\* C2: a submission whose source text is empty after trimming, or whose two
\* languages are the same programming language, is rejected with its reason,
\* opens no stream, leaves the busy flag false and the published output as it was.
C2_InvalidRejected ==
    [][(~loading /\ ClickApply /\ (IsBlank(inputCode) \/ SameProgrammingLanguage)) =>
        /\ toast' = (IF IsBlank(inputCode) THEN ToastEnterCode ELSE ToastSameLanguage)
        /\ lastSubmit' = "rejected"
        /\ ~loading'
        /\ UNCHANGED <<calls, outputCode, received, outcome>>]_vars

\* a white-space-only source text was rejected with an earlier output on display
C2_Witness ==
    /\ lastSubmit = "rejected"
    /\ toast = ToastEnterCode
    /\ inputCode = <<" ", " ">>
    /\ outputCode # <<>>
    /\ ~loading
    /\ calls = <<>>

\* C7: for every pair of languages that passes validation the prompt and the
\* system instruction belong to the same one of three branches: input is the
\* sentinel (generate, raw code only); output is the sentinel (explain,
\* explanation); neither (translate, raw code only). The pair with both
\* languages the sentinel counts under the first branch.
C7_PromptMatchesInstruction ==
    \A i \in DOMAIN calls :
        LET c == calls[i]
        IN  IF c.inputLanguage = NaturalLanguage
            THEN /\ c.prompt = GeneratePrompt(c.outputLanguage, c.inputCode)
                 /\ c.systemInstruction = RawCodeInstruction
            ELSE IF c.outputLanguage = NaturalLanguage
            THEN /\ c.prompt = ExplainPrompt(c.inputLanguage, c.inputCode)
                 /\ c.systemInstruction = ExplainInstruction
            ELSE /\ c.prompt = TranslatePrompt(c.inputLanguage, c.outputLanguage, c.inputCode)
                 /\ c.systemInstruction = RawCodeInstruction

\* C8: whatever the input language, a request made with the sentinel as output
\* language carries the explanation instruction and never the raw-code-only
\* one, and a request with any other output language carries the
\* raw-code-only instruction.
C8_InstructionFollowsOutputLanguage ==
    \A i \in DOMAIN calls :
        /\ calls[i].outputLanguage = NaturalLanguage =>
              /\ calls[i].systemInstruction = ExplainInstruction
              /\ calls[i].systemInstruction # RawCodeInstruction
        /\ calls[i].outputLanguage # NaturalLanguage =>
              calls[i].systemInstruction = RawCodeInstruction

\* a request is in flight with the sentinel on both sides
C8_Witness ==
    /\ Len(calls) = 1
    /\ calls[1].inputLanguage = NaturalLanguage
    /\ calls[1].outputLanguage = NaturalLanguage
    /\ calls[1].systemInstruction = ExplainInstruction

\* C10: while a stream is in flight, a change of either language selector and
\* the late settling of a clipboard read change only the input-side fields and
\* the notice: never the busy flag, the accumulator or the published output,
\* and the request in flight keeps the prompt and the system instruction built
\* from the values captured at submission.
C10_InFlightFrame ==
    /\ [](\A i \in DOMAIN calls :
            /\ calls[i].prompt =
                  BuildPrompt(calls[i].inputLanguage, calls[i].outputLanguage,
                              calls[i].inputCode)
            /\ calls[i].systemInstruction =
                  SystemInstruction(calls[i].inputLanguage, calls[i].outputLanguage))
    /\ [][(/\ loading
            /\ \/ inputLanguage' # inputLanguage
               \/ outputLanguage' # outputLanguage
               \/ clipboardReads' < clipboardReads) =>
            UNCHANGED <<loading, calls, outputCode, received, lastSubmit, outcome>>]_vars

\* with a stream in flight, the selectors and a late clipboard read have moved
\* every input-side field away from the values the request was built from
C10_Witness ==
    /\ loading
    /\ Len(calls) = 1
    /\ calls[1].pc = "streaming"
    /\ calls[1].inputLanguage # inputLanguage
    /\ calls[1].outputLanguage # outputLanguage
    /\ calls[1].inputCode # inputCode
    /\ toast = ToastInserted
    /\ outputCode # <<>>

\* C6: every accepted submission whose stream ends (by completion, by a
\* failure to open, by a failure between chunks) leaves the busy state, with
\* the failure notice published in the failure cases; afterwards a valid
\* submission is accepted and starts a stream as from the initial state; no
\* stream starts without a click on Apply.
C6_SessionRecovers ==
    /\ loading ~> ~loading
    /\ [][Len(calls') < Len(calls) =>
            /\ ~loading'
            /\ calls' = <<>>
            /\ outcome' \in {"completed", "openFailed", "streamFailed"}
            /\ outcome' # "completed" => toast' = ToastFailed]_vars
    /\ [][(/\ ~loading
            /\ ClickApply
            /\ ~IsBlank(inputCode)
            /\ ~SameProgrammingLanguage) =>
            /\ loading'
            /\ outputCode' = <<>>
            /\ calls' = <<FreshCall>>
            /\ received' = <<>>]_vars
    /\ [][Len(calls') > Len(calls) => (ClickApply /\ lastSubmit' = "accepted")]_vars

\* a stream is in flight that was accepted after an earlier one failed
\* between chunks, the failure notice still on display
C6_Witness ==
    /\ loading
    /\ Len(calls) = 1
    /\ calls[1].pc = "streaming"
    /\ lastSubmit = "accepted"
    /\ toast = ToastFailed
    /\ received # <<>>

----------------------------------------------------------------------------
(* Properties of the stream loop (SpecStream) *)

\* the accumulator of the stream in flight, the empty text when there is none
Accumulator == IF calls = <<>> THEN <<>> ELSE calls[1].fullText

\* the stream loop has just processed a chunk
ChunkProcessed == Len(received') = Len(received) + 1

\* C3: after the k-th chunk the accumulator is exactly the texts of chunks 1..k
\* joined in order, a chunk without text counting as empty; when the stream
\* fails after chunk k nothing is rolled back: the published output is still
\* the one derived from chunks 1..k.
C3_AccumulatorIsConcatenation ==
    /\ \A i \in DOMAIN calls :
          calls[i].pc = "streaming" =>
            /\ calls[i].fullText = Concat(received)
            /\ outputCode = DisplayCode(Concat(received))
    /\ outcome = "streamFailed" => outputCode = DisplayCode(Concat(received))

\* a stream failed after two chunks, one of them without text, and its output
\* is still on display
C3_Witness ==
    /\ outcome = "streamFailed"
    /\ ~loading
    /\ Len(received) = 2
    /\ \E k \in 1..2 : received[k] = NoTextChunk
    /\ outputCode # <<>>

\* the number of characters of a language tag from position i on: the
\* characters up to the line break or the next backtick
RECURSIVE TagRun(_, _)
TagRun(s, i) ==
    IF i <= Len(s) /\ s[i] \notin {Backtick, Newline} THEN 1 + TagRun(s, i + 1) ELSE 0

\* the length of an opening fence: three backticks, the language tag if any,
\* one line break if any
OpeningFenceLength(s) ==
    LET t == TagRun(s, 4)
    IN  3 + t + (IF 3 + t < Len(s) /\ s[4 + t] = Newline THEN 1 ELSE 0)

\* C4: after every chunk the published value is computed from the whole
\* accumulator; when the accumulator starts with three backticks, exactly the
\* opening fence (the backticks, the language tag, one line break) is removed
\* from its start, whatever the language tag; otherwise nothing is removed
\* from its start.
C4_OpeningFenceRemoved ==
    \A i \in DOMAIN calls :
        (calls[i].pc = "streaming" /\ received # <<>>) =>
            LET acc == calls[i].fullText
                n == IF StartsWithFence(acc) THEN OpeningFenceLength(acc) ELSE 0
                rest == SubSeq(acc, n + 1, Len(acc))
            IN  outputCode = rest \/ outputCode \o Fence = rest

\* what is left of the accumulator once the opening fence match is removed
AfterOpeningFence == StripOpeningFence(Accumulator)

\* the closing fence rule, on the accumulator of the moment
ClosingFenceRule ==
    (calls # <<>> /\ calls[1].pc = "streaming") =>
        /\ IsPrefix(outputCode, AfterOpeningFence)
        /\ Len(AfterOpeningFence) - Len(outputCode) \in {0, 3}
        /\ outputCode # AfterOpeningFence <=> EndsWithFence(AfterOpeningFence)
        /\ outputCode # AfterOpeningFence => EndsWithFence(Accumulator)

C9_OutputGrows ==
    /\ [][(~loading /\ loading') => outputCode' = <<>>]_vars
    /\ [][ChunkProcessed => IsPrefix(outputCode, outputCode')]_vars

\* C9 as amended: the published output is empty when the session becomes busy
\* and is always a part of the accumulator of the stream in flight, so it holds
\* no text of an earlier session; it is the accumulator that grows, each value
\* having the one before it as a prefix.
C9_AccumulatorGrows ==
    /\ [][(~loading /\ loading') => outputCode' = <<>>]_vars
    /\ [](loading => IsInfix(outputCode, Accumulator))
    /\ [][ChunkProcessed =>
            /\ IsPrefix(Accumulator, Accumulator')
            /\ IsInfix(outputCode', Accumulator')]_vars

\* a stream accepted after an earlier one failed has published, after two
\* chunks, less than its accumulator holds
C9_Witness ==
    /\ loading
    /\ toast = ToastFailed
    /\ Len(received) = 2
    /\ outputCode # <<>>
    /\ Len(outputCode) < Len(Accumulator)

====
